---- MODULE Spec2Model ----
(***************************************************************************)
(* A model of software/metax/metaxcan/Utilities.py of MetaXcan: the two    *)
(* alignment contexts (SimpleContext, OptimizedContext), the GWAS          *)
(* normalisation (_prepare_gwas, _sanitized_gwas), the data intersection   *)
(* and format_output.                                                      *)
(*                                                                         *)
(* A table (pandas DataFrame) is [columns, rows]: the set of its column    *)
(* names and the sequence of its rows, a row being a record keyed by       *)
(* column name.  Python dicts are functions.  Python's None is the empty   *)
(* option None, a present value x is Some(x).                              *)
(***************************************************************************)
EXTENDS Integers, Sequences, FiniteSets, TLC

VARIABLES
    pc,          \* which part of the program the behaviour is in
    model,       \* the loaded model: [weights |-> rows of (gene, rsid, weight)]
    covariance,  \* the covariance source (MatrixManager), keyed by gene
    simple,      \* the SimpleContext object: its attributes
    optimized,   \* the OptimizedContext object: its attributes
    ret,         \* what the last call on a context returned
    gwas,        \* the GWAS table travelling through _prepare_gwas/_sanitized_gwas
    gwas_in,     \* the table _prepare_gwas was called with
    gwas_prep,   \* the table _sanitized_gwas was called with
    log,         \* the messages logged so far
    results,     \* the results table format_output is called with
    model_info,  \* context.get_model_info()
    remove_ens_version, \* format_output's flag
    merged,      \* the table format_output returned
    ncalls       \* how many calls the contexts have served

vars == <<pc, model, covariance, simple, optimized, ret, gwas, gwas_in,
          gwas_prep, log, results, model_info, remove_ens_version, merged,
          ncalls>>

ctxVars == <<model, covariance, simple, optimized, ret, ncalls>>
gwasVars == <<gwas, gwas_in, gwas_prep, log>>
outVars == <<results, model_info, remove_ens_version, merged>>

---------------------------------------------------------------------------
(* Bounds of the model. *)

MaxWeightRows == 2
MaxGwasRows == 2
MaxRawRows == 3
MaxResults == 2
MaxCalls == 2

---------------------------------------------------------------------------
(* Values. *)

Genes == {"g1", "g2"}
Snps == {"s1", "s2"}

None == <<>>
Some(x) == <<x>>

\* A cell value is a pair <<kind, v>>: the float v, a non-finite float, the
\* Python int v, or a string: "NA", the decimal text of v, or text that is
\* no number.
Float(v) == <<"float", v>>
NaN == <<"nan", 0>>
PosInf == <<"inf", 0>>
NegInf == <<"-inf", 0>>
PyInt(v) == <<"int", v>>
StrNA == <<"str NA", 0>>
StrNum(v) == <<"str number", v>>
StrBad == <<"str abc", 0>>

IsStr(x) == x[1] \in {"str NA", "str number", "str abc"}

\* numpy.isfinite of a float
IsFinite_notNan(x) == x # NaN

IsFinite(x) == x[1] = "float"

Range(s) == {s[k] : k \in DOMAIN s}

\* All sequences over S without repetition.
Orders(S) ==
    UNION {{o \in [1..n -> S] : \A a, b \in 1..n : a # b => o[a] # o[b]} :
           n \in 0..Cardinality(S)}

SeqsUpTo(S, n) == UNION {[1..k -> S] : k \in 0..n}

\* s is t with some elements left out, the rest in t's order.
RECURSIVE IsSubseq(_, _)
IsSubseq(s, t) ==
    IF s = <<>> THEN TRUE
    ELSE IF t = <<>> THEN FALSE
    ELSE IF Head(s) = Head(t) THEN IsSubseq(Tail(s), Tail(t))
    ELSE IsSubseq(s, Tail(t))

---------------------------------------------------------------------------
(* The covariance source: MatrixManager, an external collaborator.  A gene *)
(* is unknown (None) or has a stored SNP order; get(gene, snps,            *)
(* strict=False) serves the stored SNPs that are among the candidates, in  *)
(* the stored order, with the matrix aligned to the served order.          *)

CovarianceSources ==
    [Genes -> {None} \cup {Some(o) : o \in Orders(Snps)}]

\* The entry (i, j) of a matrix aligned to order: the covariance of the
\* (unordered) pair of SNPs at i and j.
Matrix(order) ==
    [i \in 1..Len(order) |-> [j \in 1..Len(order) |-> {order[i], order[j]}]]

CovarianceGet(cov, gene, snps) ==
    IF cov[gene] = None
    THEN [snps |-> None, cov |-> None]
    ELSE LET served == SelectSeq(cov[gene][1], LAMBDA s : s \in snps)
         IN  [snps |-> Some(served), cov |-> Some(Matrix(served))]

CovarianceSnps(cov, gene) ==
    IF cov[gene] = None THEN {} ELSE Range(cov[gene][1])

---------------------------------------------------------------------------
(* What provide_calculation returns or raises. *)

Return(n, table, cov, snps) ==
    [raised |-> "", n |-> n, table |-> table, cov |-> cov, snps |-> snps]

Raise(e) ==
    [raised |-> e, n |-> 0, table |-> <<>>, cov |-> None, snps |-> None]

---------------------------------------------------------------------------
(* SimpleContext *)

SimpleContext(g, m, c) == [gwas |-> g, model |-> m, covariance |-> c]

SimpleGetWeights_allGenes(self, gene) == self.model.weights

SimpleGetWeights(self, gene) ==
    SelectSeq(self.model.weights, LAMBDA r : r.gene = gene)

SimpleGetCovariance(self, gene, snps) ==
    CovarianceGet(self.covariance, gene, snps)

SimpleGetGwas(self, snps) ==
    SelectSeq(self.gwas.rows, LAMBDA r : r.snp \in snps)

SimpleGetModelSnps(self) ==
    {self.model.weights[k].rsid : k \in DOMAIN self.model.weights}

\* pandas.merge(w, g, left_on="rsid", right_on="snp"): the inner join; the
\* rows of one left row come in the right table's order.
MergeRow(l, g) ==
    LET m == SelectSeq(g, LAMBDA r : r.snp = l.rsid)
    IN  [k \in 1..Len(m) |->
            [gene |-> l.gene, rsid |-> l.rsid, weight |-> l.weight,
             snp |-> m[k].snp, zscore |-> m[k].zscore, beta |-> m[k].beta]]

RECURSIVE Merge(_, _)
Merge(w, g) ==
    IF w = <<>> THEN <<>> ELSE MergeRow(Head(w), g) \o Merge(Tail(w), g)

\* i[[SNP, K_WEIGHT, ZSCORE, BETA]]
AlignedColumns(i) ==
    [k \in DOMAIN i |->
        [snp |-> i[k].snp, weight |-> i[k].weight,
         zscore |-> i[k].zscore, beta |-> i[k].beta]]

\* d = {x[0]: x for x in i.values}: a later row replaces an earlier one.
RowBySnp(i) ==
    [s \in {i[k].snp : k \in DOMAIN i} |->
        i[CHOOSE k \in DOMAIN i :
            /\ i[k].snp = s
            /\ \A j \in DOMAIN i : i[j].snp = s => j <= k]]

SimpleAlign_joinOrder(i, snps) ==
    SelectSeq(i, LAMBDA r : r.snp \in Range(snps))

\* d = [d[snp] for snp in snps]
SimpleAlign(i, snps) ==
    LET d == RowBySnp(i) IN [k \in 1..Len(snps) |-> d[snps[k]]]

SimpleProvideCalculation(self, gene) ==
    LET w == SimpleGetWeights(self, gene)
        g == SimpleGetGwas(self, {w[k].rsid : k \in DOMAIN w})
        i == AlignedColumns(Merge(w, g))
        c == SimpleGetCovariance(self, gene, {i[k].snp : k \in DOMAIN i})
    IN  IF c.snps # None /\ Len(c.snps[1]) > 0
        THEN IF \E k \in DOMAIN c.snps[1] :
                    c.snps[1][k] \notin {i[j].snp : j \in DOMAIN i}
             THEN Raise("KeyError")
             ELSE Return(Len(w), SimpleAlign(i, c.snps[1]), c.cov, c.snps)
        ELSE Return(Len(w), <<>>, c.cov, c.snps)

\* _data_intersection
DataIntersection(m, g) ==
    LET k == Merge(m.weights, g.rows)
    IN  [genes |-> {k[j].gene : j \in DOMAIN k},
         snps |-> {k[j].rsid : j \in DOMAIN k}]

SimpleGetDataIntersection(self) == DataIntersection(self.model, self.gwas)

\* The attributes of the SimpleContext after provide_calculation(gene): the
\* method assigns to locals only, and indexing and merge build new tables.
SimpleAfterProvide_keepsFiltered(self, gene) ==
    [self EXCEPT !.gwas.rows = SelectSeq(self.gwas.rows, LAMBDA r :
        r.snp \in {self.model.weights[k].rsid :
                     k \in {j \in DOMAIN self.model.weights :
                              self.model.weights[j].gene = gene}})]

SimpleAfterProvide(self, gene) == self

---------------------------------------------------------------------------
(* OptimizedContext *)

\* _prepare_weight_data: the rows grouped by gene in row order, and the set
\* of all SNPs of the model.
RECURSIVE PrepareWeightDataFrom(_, _, _)
PrepareWeightDataFrom(rows, d, snps) ==
    IF rows = <<>> THEN [d |-> d, snps |-> snps]
    ELSE LET x == Head(rows)
             d1 == IF x.gene \in DOMAIN d THEN d ELSE (x.gene :> <<>>) @@ d
         IN  PrepareWeightDataFrom(Tail(rows),
                                   [d1 EXCEPT ![x.gene] = Append(@, x)],
                                   snps \cup {x.rsid})

PrepareWeightData(m) == PrepareWeightDataFrom(m.weights, <<>>, {})

\* _prepare_gwas_data: data[x[0]] = x for every row, a later row replacing
\* an earlier one of the same SNP.
RECURSIVE PrepareGwasDataFrom(_, _)
PrepareGwasDataFrom(rows, data) ==
    IF rows = <<>> THEN data
    ELSE LET x == Head(rows)
         IN  PrepareGwasDataFrom(Tail(rows), (x.snp :> x) @@ data)

PrepareGwasData(g) == PrepareGwasDataFrom(g.rows, <<>>)

OptimizedContext(g, m, c) ==
    LET wd == PrepareWeightData(m)
    IN  [covariance |-> c, weight_data |-> wd.d, snps_in_model |-> wd.snps,
         gwas_data |-> PrepareGwasData(g)]

\* _get_weights, for a gene of weight_data: {x[RSID]: x[WEIGHT] for x in w}
OptGetWeights(self, gene) ==
    LET w == self.weight_data[gene]
    IN  [s \in {w[k].rsid : k \in DOMAIN w} |->
            w[CHOOSE k \in DOMAIN w :
                /\ w[k].rsid = s
                /\ \A j \in DOMAIN w : w[j].rsid = s => j <= k].weight]

\* _get_gwas: {snp: (zscore, beta)} of the requested SNPs the GWAS has
OptGetGwas(self, snps) ==
    [s \in {x \in snps : x \in DOMAIN self.gwas_data} |->
        <<self.gwas_data[s].zscore, self.gwas_data[s].beta>>]

OptimizedGetModelSnps(self) == self.snps_in_model

\* d = {x: v for x, v in w.iteritems() if x in gwas}
OptJoined(w, g) == [x \in {y \in DOMAIN w : y \in DOMAIN g} |-> w[x]]

OptimizedProvideCalculation(self, gene) ==
    IF gene \notin DOMAIN self.weight_data
    THEN Raise("KeyError")
    ELSE
    LET w == OptGetWeights(self, gene)
        g == OptGetGwas(self, DOMAIN w)
        d == OptJoined(w, g)
        c == SimpleGetCovariance(self, gene, DOMAIN d)
    IN  IF c.snps = None
        THEN Return(Cardinality(DOMAIN w), <<>>, c.cov, c.snps)
        ELSE LET snps == c.snps[1]
             IN  IF \E k \in DOMAIN snps :
                        snps[k] \notin DOMAIN w \/ snps[k] \notin DOMAIN g
                 THEN Raise("KeyError")
                 ELSE Return(Cardinality(DOMAIN w),
                             [k \in 1..Len(snps) |->
                                 [snp |-> snps[k], weight |-> w[snps[k]],
                                  zscore |-> g[snps[k]][1],
                                  beta |-> g[snps[k]][2]]],
                             c.cov, c.snps)

DataIntersection2_everyGene(weight_data, gwas_data) ==
    [genes |-> DOMAIN weight_data,
     snps |-> {s \in Snps : \E gene \in DOMAIN weight_data :
                  \E k \in DOMAIN weight_data[gene] :
                      weight_data[gene][k].rsid = s /\ s \in DOMAIN gwas_data}]

\* _data_intersection_2
DataIntersection2(weight_data, gwas_data) ==
    LET hits == {p \in (DOMAIN weight_data) \X (DOMAIN gwas_data) :
                    \E k \in DOMAIN weight_data[p[1]] :
                        weight_data[p[1]][k].rsid = p[2]}
    IN  [genes |-> {p[1] : p \in hits}, snps |-> {p[2] : p \in hits}]

OptimizedGetDataIntersection(self) ==
    DataIntersection2(self.weight_data, self.gwas_data)

\* The attributes of the OptimizedContext after provide_calculation(gene):
\* the method builds new dicts and assigns to locals only.
OptimizedAfterProvide(self, gene) == self

---------------------------------------------------------------------------
(* GWAS normalisation *)

GwasColumns == {"snp", "zscore", "beta"}

\* Series.astype(numpy.float64) of one value; a string that is no number
\* makes the whole cast raise ValueError.
Castable(x) == x[1] \notin {"str NA", "str abc"}

AsFloat64(x) == IF x[1] = "str number" THEN Float(x[2]) ELSE x

PrepareGwasTry_keepsInput(t) ==
    LET f == [t EXCEPT !.rows = SelectSeq(t.rows, LAMBDA r : r.zscore # StrNA)]
    IN  IF \A k \in DOMAIN f.rows : Castable(f.rows[k].zscore)
        THEN [gwas |-> [f EXCEPT !.rows =
                          [k \in DOMAIN f.rows |->
                              [f.rows[k] EXCEPT !.zscore = AsFloat64(@)]]],
              failed |-> FALSE]
        ELSE [gwas |-> t, failed |-> TRUE]

\* The try block of _prepare_gwas: gwas is rebound to the rows whose zscore
\* is not "NA" before the cast is attempted, so that is what the except
\* clause leaves in gwas.
PrepareGwasTry(t) ==
    LET f == [t EXCEPT !.rows = SelectSeq(t.rows, LAMBDA r : r.zscore # StrNA)]
    IN  IF \A k \in DOMAIN f.rows : Castable(f.rows[k].zscore)
        THEN [gwas |-> [f EXCEPT !.rows =
                          [k \in DOMAIN f.rows |->
                              [f.rows[k] EXCEPT !.zscore = AsFloat64(@)]]],
              failed |-> FALSE]
        ELSE [gwas |-> f, failed |-> TRUE]

\* if not BETA in gwas: gwas.loc[:, BETA] = numpy.nan
WithBeta(t) ==
    IF "beta" \in t.columns THEN t
    ELSE [columns |-> t.columns \cup {"beta"},
          rows |-> [k \in DOMAIN t.rows |-> [beta |-> NaN] @@ t.rows[k]]]

PrepareGwas(t) ==
    LET r == PrepareGwasTry(t)
    IN  [gwas |-> WithBeta(r.gwas),
         log |-> IF r.failed THEN <<"Unexpected issue preparing gwas...">>
                 ELSE <<>>]

\* gwas[[SNP, ZSCORE, BETA]]
OnlyGwasColumns(t) ==
    [columns |-> GwasColumns,
     rows |-> [k \in DOMAIN t.rows |->
                  [snp |-> t.rows[k].snp, zscore |-> t.rows[k].zscore,
                   beta |-> t.rows[k].beta]]]

\* _sanitized_gwas.  numpy.isfinite raises TypeError on a column that
\* holds strings.
SanitizedGwas(t) ==
    LET g == OnlyGwasColumns(t)
    IN  IF \E k \in DOMAIN g.rows : IsStr(g.rows[k].zscore)
        THEN [raised |-> "TypeError", gwas |-> g, log |-> <<>>]
        ELSE IF \E k \in DOMAIN g.rows : ~IsFinite(g.rows[k].zscore)
        THEN [raised |-> "",
              gwas |-> [g EXCEPT !.rows =
                          SelectSeq(g.rows, LAMBDA r : IsFinite(r.zscore))],
              log |-> <<"Discarding non finite GWAS zscores">>]
        ELSE [raised |-> "", gwas |-> g, log |-> <<>>]

---------------------------------------------------------------------------
(* format_output.  Of the twelve output columns the model keeps gene,      *)
(* gene_name, zscore, pvalue, n_snps_in_cov and n_snps_in_model; the       *)
(* others are carried through the merge like gene_name.                    *)

\* A p-value, in units of 1/10000.
PFloat(n) == <<"float 1e-4", n>>

Abs(v) == IF v < 0 THEN -v ELSE v

\* stats.norm.sf(a) for a >= 0, in units of 1/10000.
NormSf(a) ==
    CASE a = 0 -> 5000
      [] a = 1 -> 1587
      [] a = 2 -> 228
      [] a = 3 -> 13
      [] OTHER -> 0

PValue_noGuard(z) ==
    IF z = NaN THEN NaN
    ELSE IF z \in {PosInf, NegInf} THEN PFloat(0)
    ELSE PFloat(2 * NormSf(Abs(z[2])))

\* results[PVALUE] = nan; results.loc[i, PVALUE] = 2 * sf(abs(zscore)) where
\* i = isfinite(zscore)
PValue(z) ==
    IF IsFinite(z) THEN PFloat(2 * NormSf(Abs(z[2]))) ELSE NaN

\* pandas.merge(results, model_info, how="inner", on="gene")
MergeInfoRow(r, info) ==
    LET m == SelectSeq(info, LAMBDA x : x.gene = r.gene)
    IN  [k \in 1..Len(m) |->
            [gene |-> r.gene, gene_name |-> m[k].gene_name,
             zscore |-> r.zscore, pvalue |-> r.pvalue,
             n_snps_in_cov |-> r.n_snps_in_cov,
             n_snps_in_model |-> m[k].n_snps_in_model]]

RECURSIVE MergeInfo(_, _)
MergeInfo(rs, info) ==
    IF rs = <<>> THEN <<>>
    ELSE MergeInfoRow(Head(rs), info) \o MergeInfo(Tail(rs), info)

\* merged.gene.str.split(".").str.get(0): a gene id is the sequence of its
\* dot-separated segments.
RemoveEnsVersion(gene) == <<gene[1]>>

\* fillna("NA") of one cell
FillNa(x) == IF x = NaN THEN StrNA ELSE x

\* _to_int: int(d), or d itself when int(d) raises (a string, an infinity)
ToInt(d) == IF d[1] = "float" THEN PyInt(d[2]) ELSE d

\* The order sort_values(by=PVALUE) sorts by: numbers ascending, and (in
\* Python 2) every number before the string "NA".
PValueLeq(a, b) ==
    \/ IsStr(b)
    \/ ~IsStr(a) /\ a[2] <= b[2]

OutputColumns ==
    {"gene", "gene_name", "zscore", "pvalue", "n_snps_in_cov",
     "n_snps_in_model"}

\* format_output up to the sort.
FormatUnsorted(rs, info, remove) ==
    LET dropped == [k \in DOMAIN rs |->
                       [gene |-> rs[k].gene, zscore |-> rs[k].zscore,
                        n_snps_in_cov |-> rs[k].n_snps_in_cov]]
        withP == [k \in DOMAIN dropped |->
                     [pvalue |-> PValue(dropped[k].zscore)] @@ dropped[k]]
        m == MergeInfo(withP, info)
    IN  [k \in DOMAIN m |->
            [gene |-> IF remove THEN RemoveEnsVersion(m[k].gene)
                      ELSE m[k].gene,
             gene_name |-> m[k].gene_name,
             zscore |-> FillNa(m[k].zscore),
             pvalue |-> FillNa(m[k].pvalue),
             n_snps_in_cov |-> ToInt(FillNa(m[k].n_snps_in_cov)),
             n_snps_in_model |-> FillNa(m[k].n_snps_in_model)]]

\* The tables format_output can return: sort_values uses quicksort, which
\* leaves the order of rows of equal p-value open.
FormatOutput(rs, info, remove) ==
    LET u == FormatUnsorted(rs, info, remove)
        n == Len(u)
    IN  {[columns |-> OutputColumns, rows |-> [k \in 1..n |-> u[o[k]]]] :
            o \in {q \in [1..n -> 1..n] :
                      /\ \A a, b \in 1..n : a # b => q[a] # q[b]
                      /\ \A a, b \in 1..n :
                            a <= b => PValueLeq(u[q[a]].pvalue, u[q[b]].pvalue)}}

---------------------------------------------------------------------------
(* The contexts at work: Spec.  A model, a GWAS table and a covariance     *)
(* source are loaded, both contexts are built from them as                 *)
(* _build_simple_context and _build_context do, and then serve calls.      *)

EmptyTable == [columns |-> {}, rows |-> <<>>]
NoRet == [op |-> "none", variant |-> "", gene |-> "", value |-> <<>>]

\* Loaded models: row k carries the weight k, so no two rows are alike.
Models ==
    {[weights |-> [k \in DOMAIN p |->
                      [gene |-> p[k][1], rsid |-> p[k][2], weight |-> Float(k)]]] :
        p \in SeqsUpTo(Genes \X Snps, MaxWeightRows)}

\* GWAS tables as _prepare_gwas and _sanitized_gwas leave them: the three
\* columns, every zscore finite.
SanitizedTables ==
    {[columns |-> GwasColumns,
      rows |-> [k \in DOMAIN p |->
                   [snp |-> p[k], zscore |-> Float(k), beta |-> Float(10 + k)]]] :
        p \in SeqsUpTo(Snps, MaxGwasRows)}

Init ==
    /\ pc = "context"
    /\ model \in Models
    /\ gwas \in SanitizedTables
    /\ covariance \in CovarianceSources
    /\ simple = SimpleContext(gwas, model, covariance)
    /\ optimized = OptimizedContext(gwas, model, covariance)
    /\ ret = NoRet
    /\ ncalls = 0
    /\ gwas_in = EmptyTable
    /\ gwas_prep = EmptyTable
    /\ log = <<>>
    /\ results = <<>>
    /\ model_info = <<>>
    /\ remove_ens_version = FALSE
    /\ merged = EmptyTable

Called(op, variant, gene, value) ==
    /\ pc = "context"
    /\ ncalls < MaxCalls
    /\ ncalls' = ncalls + 1
    /\ ret' = [op |-> op, variant |-> variant, gene |-> gene, value |-> value]
    /\ UNCHANGED <<pc, model, covariance, gwasVars, outVars>>

SimpleProvide(gene) ==
    /\ Called("provide_calculation", "simple", gene,
              SimpleProvideCalculation(simple, gene))
    /\ simple' = SimpleAfterProvide(simple, gene)
    /\ UNCHANGED optimized

OptimizedProvide(gene) ==
    /\ Called("provide_calculation", "optimized", gene,
              OptimizedProvideCalculation(optimized, gene))
    /\ optimized' = OptimizedAfterProvide(optimized, gene)
    /\ UNCHANGED simple

SimpleDataIntersection ==
    /\ Called("get_data_intersection", "simple", "",
              SimpleGetDataIntersection(simple))
    /\ UNCHANGED <<simple, optimized>>

OptimizedDataIntersection ==
    /\ Called("get_data_intersection", "optimized", "",
              OptimizedGetDataIntersection(optimized))
    /\ UNCHANGED <<simple, optimized>>

Next ==
    \/ \E gene \in Genes : SimpleProvide(gene)
    \/ \E gene \in Genes : OptimizedProvide(gene)
    \/ SimpleDataIntersection
    \/ OptimizedDataIntersection

Spec == Init /\ [][Next]_vars

---------------------------------------------------------------------------
(* Properties of the contexts, stated over the loaded inputs model, gwas   *)
(* and covariance. *)

Provided == ret.op = "provide_calculation"
Returned == Provided /\ ret.value.raised = ""

\* The weight rows the model holds for a gene.
WeightRowsOf(gene) ==
    {k \in DOMAIN model.weights : model.weights[k].gene = gene}

ModelSnpsOf(gene) == {model.weights[k].rsid : k \in WeightRowsOf(gene)}
GwasSnps == {gwas.rows[k].snp : k \in DOMAIN gwas.rows}

\* The last weight row of (gene, snp), and the last GWAS row of snp.
LastWeightRow(gene, snp) ==
    model.weights[CHOOSE k \in WeightRowsOf(gene) :
        /\ model.weights[k].rsid = snp
        /\ \A j \in WeightRowsOf(gene) : model.weights[j].rsid = snp => j <= k]

LastGwasRow(snp) ==
    gwas.rows[CHOOSE k \in DOMAIN gwas.rows :
        /\ gwas.rows[k].snp = snp
        /\ \A j \in DOMAIN gwas.rows : gwas.rows[j].snp = snp => j <= k]

\* C1: for every gene, SimpleContext.provide_calculation and
\* OptimizedContext.provide_calculation give the same outcome: the same
\* n_snps_in_model, aligned rows, matrix and snp_order.
C1_VariantsAgree ==
    Provided =>
        ret.value = IF ret.variant = "simple"
                    THEN OptimizedProvideCalculation(
                             OptimizedContext(gwas, model, covariance), ret.gene)
                    ELSE SimpleProvideCalculation(
                             SimpleContext(gwas, model, covariance), ret.gene)

\* C2: when provide_calculation returns a present snp_order, the aligned
\* table has one row per position of snp_order, row i carrying snp_order[i],
\* the gene's model weight of that SNP (of its last row, when the model
\* repeats the SNP) and the GWAS zscore and beta of that SNP (of its last
\* row); snp_order is what the covariance source serves for the SNPs the
\* model and the GWAS share, not the join's order.
C2_AlignedToServedOrder ==
    (Returned /\ ret.value.snps # None) =>
        LET order == ret.value.snps[1]
            t == ret.value.table
        IN  /\ Len(t) = Len(order)
            /\ ret.value.snps =
                  CovarianceGet(covariance, ret.gene,
                                ModelSnpsOf(ret.gene) \cap GwasSnps).snps
            /\ \A i \in DOMAIN order :
                  /\ t[i].snp = order[i]
                  /\ order[i] \in ModelSnpsOf(ret.gene) \cap GwasSnps
                  /\ t[i].weight = LastWeightRow(ret.gene, order[i]).weight
                  /\ t[i].zscore = LastGwasRow(order[i]).zscore
                  /\ t[i].beta = LastGwasRow(order[i]).beta

\* A call returned two rows in the opposite of the model's row order.
C2_Witness ==
    /\ Returned
    /\ ret.value.snps # None
    /\ Len(ret.value.table) = 2
    /\ ret.value.table[1].snp = "s2"
    /\ ret.value.table[2].snp = "s1"
    /\ \E a, b \in WeightRowsOf(ret.gene) :
          a < b /\ model.weights[a].rsid = "s1" /\ model.weights[b].rsid = "s2"

\* C3: a returned snp_order holds only SNPs of the gene's model weight rows
\* that are in the GWAS data and among the covariance source's SNPs of the
\* gene, and the aligned table holds no SNP that is not in snp_order.
C3_OnlyUsableSnps ==
    (Returned /\ ret.value.snps # None) =>
        LET order == ret.value.snps[1]
            t == ret.value.table
        IN  /\ Range(order) \subseteq ModelSnpsOf(ret.gene)
            /\ Range(order) \subseteq GwasSnps
            /\ Range(order) \subseteq CovarianceSnps(covariance, ret.gene)
            /\ {t[k].snp : k \in DOMAIN t} \subseteq Range(order)

\* A SNP survived the join of model and GWAS, the source served another
\* one only, and the call returned.
C3_Witness ==
    /\ Returned
    /\ ret.value.snps # None
    /\ Len(ret.value.snps[1]) = 1
    /\ \E s \in (ModelSnpsOf(ret.gene) \cap GwasSnps) :
          s \notin Range(ret.value.snps[1])

\* C4: when the covariance source does not know the gene,
\* provide_calculation does not raise and returns the number of the gene's
\* weight rows, no aligned rows, the source's matrix and an absent
\* snp_order.
C4_UnknownGene ==
    (Provided /\ covariance[ret.gene] = None) =>
        /\ ret.value.raised = ""
        /\ ret.value.n = Cardinality(WeightRowsOf(ret.gene))
        /\ ret.value.table = <<>>
        /\ ret.value.cov = CovarianceGet(covariance, ret.gene, Snps).cov
        /\ ret.value.snps = None

\* C5: get_data_intersection returns the genes with a weight row whose SNP
\* the GWAS has, and those SNPs; the SNPs are among get_model_snps() and
\* the GWAS SNPs; both variants return the same sets.
C5_DataIntersection ==
    ret.op = "get_data_intersection" =>
        LET hit == {k \in DOMAIN model.weights :
                       model.weights[k].rsid \in GwasSnps}
        IN  /\ ret.value.genes = {model.weights[k].gene : k \in hit}
            /\ ret.value.snps = {model.weights[k].rsid : k \in hit}
            /\ ret.value.snps \subseteq GwasSnps
            /\ ret.value.snps \subseteq
                  (IF ret.variant = "simple" THEN SimpleGetModelSnps(simple)
                   ELSE OptimizedGetModelSnps(optimized))
            /\ SimpleGetDataIntersection(simple) =
                  OptimizedGetDataIntersection(optimized)

\* The intersection left out a gene and a SNP of the model.
C5_Witness ==
    /\ ret.op = "get_data_intersection"
    /\ ret.value.genes = {"g1"}
    /\ ret.value.snps = {"s2"}
    /\ \E k \in DOMAIN model.weights : model.weights[k].gene = "g2"
    /\ \E k \in DOMAIN model.weights : model.weights[k].rsid = "s1"

\* C7: provide_calculation leaves the contexts as they were built, and
\* after any calls the result for a gene is the one a freshly built context
\* gives.
C7_PureRead ==
    /\ simple = SimpleContext(gwas, model, covariance)
    /\ optimized = OptimizedContext(gwas, model, covariance)
    /\ Provided =>
          ret.value = IF ret.variant = "simple"
                      THEN SimpleProvideCalculation(
                               SimpleContext(gwas, model, covariance), ret.gene)
                      ELSE OptimizedProvideCalculation(
                               OptimizedContext(gwas, model, covariance), ret.gene)

\* A second call returned aligned rows.
C7_Witness ==
    /\ Returned
    /\ ncalls = 2
    /\ Len(ret.value.table) > 0

\* C9: the n_snps_in_model provide_calculation returns is the number of
\* weight rows the model holds for the gene.
C9_OriginalWeightCount ==
    Returned => ret.value.n = Cardinality(WeightRowsOf(ret.gene))

---------------------------------------------------------------------------
(* The GWAS table on its way into a context: SpecGwas.  _build_context and *)
(* _build_simple_context pass the input through _prepare_gwas and then     *)
(* _sanitized_gwas.                                                        *)

ZRaw == {Float(2), NaN, PosInf, NegInf, StrNA, StrNum(1), StrBad}

\* Input tables: snp and zscore, with or without a beta column and a
\* further column the program has no use for.
RawTables ==
    {[columns |-> {"snp", "zscore"} \cup extra,
      rows |-> [k \in DOMAIN p |->
                   [c \in {"snp", "zscore"} \cup extra |->
                       CASE c = "snp" -> p[k][1]
                         [] c = "zscore" -> p[k][2]
                         [] c = "beta" -> Float(10 + k)
                         [] OTHER -> Float(20 + k)]]] :
        p \in SeqsUpTo(Snps \X ZRaw, MaxRawRows),
        extra \in SUBSET {"beta", "pvalue"}}

NoModel == [weights |-> <<>>]
NoCovariance == [g \in Genes |-> None]

InitGwas ==
    /\ pc = "raw"
    /\ gwas \in RawTables
    /\ gwas_in = gwas
    /\ gwas_prep = EmptyTable
    /\ log = <<>>
    /\ model = NoModel
    /\ covariance = NoCovariance
    /\ simple = SimpleContext(EmptyTable, NoModel, NoCovariance)
    /\ optimized = OptimizedContext(EmptyTable, NoModel, NoCovariance)
    /\ ret = NoRet
    /\ ncalls = 0
    /\ results = <<>>
    /\ model_info = <<>>
    /\ remove_ens_version = FALSE
    /\ merged = EmptyTable

PrepareGwasStep ==
    /\ pc = "raw"
    /\ LET r == PrepareGwas(gwas)
       IN  /\ gwas' = r.gwas
           /\ log' = log \o r.log
    /\ pc' = "prepared"
    /\ UNCHANGED <<gwas_in, gwas_prep, ctxVars, outVars>>

SanitizedGwasStep ==
    /\ pc = "prepared"
    /\ LET r == SanitizedGwas(gwas)
       IN  /\ pc' = IF r.raised = "" THEN "sanitized" ELSE "raised"
           /\ gwas' = IF r.raised = "" THEN r.gwas ELSE gwas
           /\ log' = log \o r.log
    /\ gwas_prep' = gwas
    /\ UNCHANGED <<gwas_in, ctxVars, outVars>>

NextGwas == PrepareGwasStep \/ SanitizedGwasStep

SpecGwas == InitGwas /\ [][NextGwas]_vars

\* The rows of t, each cut down to the columns cols.
Columns(t, cols) == [k \in DOMAIN t.rows |-> [c \in cols |-> t.rows[k][c]]]

\* C6: after _sanitized_gwas no row has a NaN or infinite zscore, the rows
\* of finite zscore are all kept, unchanged and in their order, and the
\* columns are snp, zscore and beta.
C6_Sanitized ==
    pc = "sanitized" =>
        /\ gwas.columns = {"snp", "zscore", "beta"}
        /\ \A k \in DOMAIN gwas.rows :
              /\ gwas.rows[k].zscore \notin {NaN, PosInf, NegInf}
              /\ DOMAIN gwas.rows[k] = {"snp", "zscore", "beta"}
        /\ IsSubseq(gwas.rows, Columns(gwas_prep, {"snp", "zscore", "beta"}))
        /\ Len(gwas.rows) =
              Cardinality({k \in DOMAIN gwas_prep.rows :
                              gwas_prep.rows[k].zscore[1] = "float"})

\* A row of infinite zscore and a column were dropped; a row was kept.
C6_Witness ==
    /\ pc = "sanitized"
    /\ gwas.rows # <<>>
    /\ "pvalue" \in gwas_prep.columns
    /\ \E k \in DOMAIN gwas_prep.rows : gwas_prep.rows[k].zscore = NegInf

\* The cast of _prepare_gwas fails: a zscore other than "NA" is no number.
CastFails == \E k \in DOMAIN gwas_in.rows : gwas_in.rows[k].zscore = StrBad

BetaAdded ==
    /\ gwas.columns = gwas_in.columns \cup {"beta"}
    /\ "beta" \notin gwas_in.columns =>
          \A k \in DOMAIN gwas.rows : gwas.rows[k].beta = NaN

\* C10: when the cast of the zscore column fails, the failure is logged and
\* the table that goes on has the rows and zscores of the table passed
\* in, with a beta column of missing values added when there was none.
C10_InputKept ==
    (pc = "prepared" /\ CastFails) =>
        /\ log = <<"Unexpected issue preparing gwas...">>
        /\ Columns(gwas, gwas_in.columns) = gwas_in.rows
        /\ BetaAdded

\* C10, amended: when the cast fails, the failure is logged and the table
\* that goes on is the table passed in without its rows of zscore "NA",
\* the other rows unchanged (their zscores not cast) and in their order,
\* with a beta column of missing values added when there was none.
C10_NaRowsDropped ==
    (pc = "prepared" /\ CastFails) =>
        /\ log = <<"Unexpected issue preparing gwas...">>
        /\ IsSubseq(Columns(gwas, gwas_in.columns), gwas_in.rows)
        /\ \A k \in DOMAIN gwas.rows : gwas.rows[k].zscore # StrNA
        /\ Len(gwas.rows) =
              Cardinality({k \in DOMAIN gwas_in.rows :
                              gwas_in.rows[k].zscore # StrNA})
        /\ BetaAdded

\* The cast failed on a table that had a "NA" row, a number in text and no
\* beta column.
C10_Witness ==
    /\ pc = "prepared"
    /\ CastFails
    /\ "beta" \notin gwas_in.columns
    /\ Len(gwas.rows) < Len(gwas_in.rows)
    /\ \E k \in DOMAIN gwas.rows : gwas.rows[k].zscore = StrNum(1)

---------------------------------------------------------------------------
(* format_output at work: SpecOutput. *)

\* Gene ids, as their dot-separated segments: "g1" and "g2.1".
EnsGenes == {<<"g1">>, <<"g2", "1">>}

ZResults == {Float(0), Float(2), Float(-2), NaN, PosInf, NegInf}

ResultTables ==
    {[k \in DOMAIN p |->
         [gene |-> p[k][1], zscore |-> p[k][2], n_snps_in_cov |-> p[k][3],
          n_snps_in_model |-> PyInt(k)]] :
        p \in SeqsUpTo(EnsGenes \X ZResults \X {Float(2), NaN}, MaxResults)}

ModelInfos ==
    {[k \in DOMAIN o |->
         [gene |-> o[k], gene_name |-> o[k][1], n_snps_in_model |-> PyInt(3)]] :
        o \in Orders(EnsGenes)}

InitOutput ==
    /\ pc = "results"
    /\ results \in ResultTables
    /\ model_info \in ModelInfos
    /\ remove_ens_version \in BOOLEAN
    /\ merged = EmptyTable
    /\ gwas = EmptyTable
    /\ gwas_in = EmptyTable
    /\ gwas_prep = EmptyTable
    /\ log = <<>>
    /\ model = NoModel
    /\ covariance = NoCovariance
    /\ simple = SimpleContext(EmptyTable, NoModel, NoCovariance)
    /\ optimized = OptimizedContext(EmptyTable, NoModel, NoCovariance)
    /\ ret = NoRet
    /\ ncalls = 0

FormatOutputStep ==
    /\ pc = "results"
    /\ merged' \in FormatOutput(results, model_info, remove_ens_version)
    /\ pc' = "formatted"
    /\ UNCHANGED <<results, model_info, remove_ens_version, gwasVars, ctxVars>>

NextOutput == FormatOutputStep

SpecOutput == InitOutput /\ [][NextOutput]_vars

\* C8: in the table format_output returns, a row's pvalue is "NA" exactly
\* when its zscore is not finite; a row of finite zscore has a number, the
\* same for z and -z, and 1 for z = 0.
C8_PValues ==
    pc = "formatted" =>
        \A k \in DOMAIN merged.rows :
            LET r == merged.rows[k]
            IN  /\ r.pvalue = StrNA <=> r.zscore[1] # "float"
                /\ r.zscore[1] = "float" => r.pvalue[1] = "float 1e-4"
                /\ r.zscore = Float(0) => r.pvalue = PFloat(10000)
                /\ r.zscore \in {Float(2), Float(-2)} => r.pvalue = PFloat(456)

\* The scenario of the p-value rule: z = 0 and z = NaN, and an infinite z.
C8_Witness ==
    /\ pc = "formatted"
    /\ Len(merged.rows) = 2
    /\ merged.rows[1].zscore = Float(0)
    /\ merged.rows[1].pvalue = PFloat(10000)
    /\ merged.rows[2].zscore = StrNA
    /\ merged.rows[2].pvalue = StrNA

====
